---- MODULE Spec2Model ----
(***************************************************************************)
(* Payment-proof collection backend (backend/app): the committed database  *)
(* rows (users, categories, payment_submissions), the receipt blob store,  *)
(* the clock, and the HTTP handlers of api/submissions.py,                 *)
(* api/categories.py and api/public.py as atomic steps between database    *)
(* reads and commits.                                                      *)
(*                                                                         *)
(* Conventions                                                             *)
(*  - Identifiers (uuid4 / serial keys) are positive integers; NULL (0) is *)
(*    SQL NULL / Python None of an id or a timestamp column, None is       *)
(*    Python None of a text column.                                        *)
(*  - Strings the code inspects character by character (file names,        *)
(*    extensions, storage keys) are sequences of one-character strings.    *)
(*  - current_user is the User that get_current_user resolved: a member of *)
(*    Users.  Path-parameter parsing and token decoding are outside the    *)
(*    handlers modelled here.                                              *)
(*  - Every request runs in its own SQLAlchemy session (database.get_db):  *)
(*    a handler that reads, then commits, is two steps, and other requests *)
(*    may run in between.  No handler takes a row lock (no                 *)
(*    with_for_update, no version column), so a commit is a plain          *)
(*    UPDATE ... WHERE id = :id under READ COMMITTED.                      *)
(*  - The database outlives the process: Init holds one category per admin *)
(*    and NumSeed submissions in the form api/public.py constructs them    *)
(*    (pending, no review fields, a derived receipt key).                  *)
(***************************************************************************)
EXTENDS Integers, Sequences, FiniteSets, TLC

VARIABLES
    bucket,       \* the receipt bucket in the object store: missing, owned by
                  \* this deployment, or held by another account
    workers,      \* each server process: where it is in StorageService()
    users,        \* table users: id -> row
    categories,   \* table categories: id -> row
    submissions,  \* table payment_submissions: id -> row (committed)
    blobs,        \* object keys stored in the receipt bucket
    now,          \* datetime.utcnow()
    inflight,     \* requests between their first database read and their commit
    last          \* the request that has just finished and its response, until
                  \* the response is handed to the client

vars == <<bucket, workers, users, categories, submissions, blobs, now, inflight,
         last>>

----------------------------------------------------------------------------
(* Bounds of the model *)

NumUsers == 2
NumWorkers == 2
NumSeed == 1
MaxSubmissions == 2
MaxTime == 2
MaxInFlight == 2

----------------------------------------------------------------------------
(* Values *)

NULL == 0
None == "<None>"

Users == 1..NumUsers
CategoryIds == 1..NumUsers
SubmissionIds == 1..MaxSubmissions
Slots == 1..MaxInFlight
Workers == 1..NumWorkers

PENDING == "pending"
CONFIRMED == "confirmed"
REJECTED == "rejected"
SubmissionStatus == {PENDING, CONFIRMED, REJECTED}

\* secrets.token_urlsafe(nbytes): the n-th value of nbytes random bytes in
\* unpadded URL-safe base64, with its number of characters
TOKEN_BYTES == 32
token_urlsafe(nbytes, n) == <<"tok", n, (4 * nbytes + 2) \div 3>>

\* the token of category c; TokenOf(0) is a token no seeded category has
TokenOf(c) == token_urlsafe(TOKEN_BYTES, c)
Tokens == {TokenOf(c) : c \in 0..NumUsers}

\* len() of the text values the requests carry
StrLen(s) ==
    CASE s = "" -> 0
      [] s = "J" -> 1
      [] s = "123" -> 3
      [] s = "verified" -> 8
      [] s = "unclear" -> 7
      [] s = "Jane Smith" -> 10
      [] s = "+1234567890" -> 11
      [] s = "Alice Rep" -> 9
      [] s = "pw12345678" -> 10
      [] s = "letmein123" -> 10
      [] s = "short" -> 5
      [] s = "June Fees" -> 9

----------------------------------------------------------------------------
(* core/exceptions.py and the responses of the handlers *)

NoResponse == [code |-> 0, kind |-> "none", detail |-> <<>>, status |-> ""]

\* a handler's return value; status is the submission status in the body
Response(code, status) ==
    [code |-> code, kind |-> "ok", detail |-> <<>>, status |-> status]

NotFoundError(detail) ==
    [code |-> 404, kind |-> "NotFoundError", detail |-> detail, status |-> ""]

BadRequestError(detail) ==
    [code |-> 400, kind |-> "BadRequestError", detail |-> detail, status |-> ""]

\* FastAPI's answer to a body or form field its pydantic model refuses
RequestValidationError(field) ==
    [code |-> 422, kind |-> "RequestValidationError", detail |-> <<field>>,
     status |-> ""]

AuthenticationError(detail) ==
    [code |-> 401, kind |-> "AuthenticationError", detail |-> detail, status |-> ""]

ConflictError(detail) ==
    [code |-> 409, kind |-> "ConflictError", detail |-> detail, status |-> ""]

\* an exception no handler catches
InternalServerError(exc) ==
    [code |-> 500, kind |-> exc, detail |-> <<>>, status |-> ""]

\* the outcome of a helper: an exception raised, or a value returned
Raise(exc) == [raised |-> TRUE, exc |-> exc, value |-> NULL]
Return(v) == [raised |-> FALSE, exc |-> NoResponse, value |-> v]

----------------------------------------------------------------------------
(* Rows *)

NoKey == <<>>

NoRow ==
    [category_id |-> NULL, student_name |-> "", student_phone |-> "",
     amount_paid |-> 0, receipt_url |-> NoKey, status |-> PENDING,
     admin_note |-> None, submitted_at |-> NULL, reviewed_at |-> NULL,
     reviewed_by |-> NULL]

\* PaymentSubmission(...) as api/public.py builds it; the column defaults
\* (submitted_at: server_default now())
PaymentSubmission(category_id, student_name, student_phone, amount_paid, receipt_url) ==
    [category_id |-> category_id, student_name |-> student_name,
     student_phone |-> student_phone, amount_paid |-> amount_paid,
     receipt_url |-> receipt_url, status |-> PENDING,
     admin_note |-> None, submitted_at |-> now, reviewed_at |-> NULL,
     reviewed_by |-> NULL]

\* Category(...) as api/categories.py builds it (created_at: server_default
\* now())
Category(admin_id, public_token, expires_at) ==
    [admin_id |-> admin_id, title |-> "June Fees", description |-> None,
     amount_expected |-> 50, public_token |-> public_token,
     is_active |-> TRUE, created_at |-> now, expires_at |-> expires_at]

\* User(...) as api/auth.py builds it
User(name, email, password_hash) ==
    [name |-> name, email |-> email, password_hash |-> password_hash]

\* Python values of a token subject: the uuid.UUID object of user n, the str
\* of that UUID, and None
PyUUID(n) == <<"UUID", n>>
PyStr(n) == <<"str", n>>
PyNone == <<"NoneType", 0>>

----------------------------------------------------------------------------
(* core/security.py *)

ACCESS_TOKEN_EXPIRE_MINUTES == 15
REFRESH_TOKEN_EXPIRE_DAYS == 7

\* pwd_context.hash / pwd_context.verify (the salt is left out)
get_password_hash(password) == <<"bcrypt", password>>
pwd_context_verify(plain_password, hash) == hash = <<"bcrypt", plain_password>>

\* hashed_password.value: the argument is what the caller passes, the str
\* loaded from the row, and a str has no attribute value
verify_password(plain_password, hashed_password) ==
    IF hashed_password[1] # "Column"
    THEN Raise(InternalServerError("AttributeError"))
    ELSE Return(pwd_context_verify(plain_password, hashed_password[2]))

\* a JWT: its claims, and whether its signature verifies under SECRET_KEY
Jwt(sub, type, exp) == [signed |-> TRUE, sub |-> sub, type |-> type, exp |-> exp]
NoJwt == [signed |-> FALSE, sub |-> PyNone, type |-> "", exp |-> 0]

JWTError(msg) ==
    [code |-> 500, kind |-> "JWTError", detail |-> <<msg>>, status |-> ""]

\* jwt.encode: the claims are serialised with json.dumps, which raises
\* TypeError for a value that is no JSON type (a uuid.UUID object)
jwt_encode(claims) ==
    IF claims.sub[1] = "UUID"
    THEN Raise(InternalServerError("TypeError"))
    ELSE Return(Jwt(claims.sub, claims.type, claims.exp))

create_access_token(data) ==
    jwt_encode([sub |-> data.sub, exp |-> now + ACCESS_TOKEN_EXPIRE_MINUTES,
                type |-> "access"])

create_refresh_token(data) ==
    jwt_encode([sub |-> data.sub,
                exp |-> now + REFRESH_TOKEN_EXPIRE_DAYS * 24 * 60,
                type |-> "refresh"])

\* jwt.decode: signature, then the exp claim
decode_token(token) ==
    IF ~token.signed
    THEN Raise(JWTError("Signature verification failed."))
    ELSE IF token.exp < now
    THEN Raise(JWTError("Signature has expired."))
    ELSE Return(token)

----------------------------------------------------------------------------
(* services/storage_service.py *)

MAX_UPLOAD_SIZE == 10 * 1024 * 1024
ALLOWED_EXTENSIONS ==
    { <<".", "j", "p", "g">>, <<".", "j", "p", "e", "g">>,
      <<".", "p", "n", "g">>, <<".", "p", "d", "f">> }

\* str.lower() on the characters the file names use
LowerChar(c) ==
    CASE c = "J" -> "j"
      [] c = "P" -> "p"
      [] c = "G" -> "g"
      [] OTHER -> c

Lower(s) == [i \in 1..Len(s) |-> LowerChar(s[i])]

\* os.path.splitext(filename)[1]: from the last dot on, unless only dots
\* come before it
SplitExt(filename) ==
    LET dots == {i \in 1..Len(filename) : filename[i] = "."}
    IN  IF dots = {} THEN <<>>
        ELSE LET d == CHOOSE i \in dots : \A j \in dots : j <= i
             IN  IF \E k \in 1..(d - 1) : filename[k] # "."
                 THEN SubSeq(filename, d, Len(filename))
                 ELSE <<>>

validate_file_extension(filename) ==
    LET ext == Lower(SplitExt(filename))
    IN  IF ext \notin ALLOWED_EXTENSIONS
        THEN Raise(BadRequestError(<<"File type not allowed", ext>>))
        ELSE Return(NULL)

\* a faulty variant: the size check is skipped whatever the arguments are
validate_file_size_unchecked(args) == Return(args[1])

\* args are the positional arguments of the call: (file, max_size) has no
\* default, so a call that passes fewer than two raises TypeError before the
\* body runs.  A file is modelled by its size in bytes.
validate_file_size(args) ==
    IF Len(args) < 2
    THEN Raise(InternalServerError("TypeError"))
    ELSE LET max_size == IF args[2] = NULL THEN MAX_UPLOAD_SIZE ELSE args[2]
         IN  IF args[1] > max_size
             THEN Raise(BadRequestError(<<"File too large">>))
             ELSE Return(args[1])

\* filename.replace(" ", "_")
SafeFilename(filename) ==
    [i \in 1..Len(filename) |-> IF filename[i] = " " THEN "_" ELSE filename[i]]

\* f"receipts/{category_id}/{submission_id}/{timestamp}_{safe_filename}"
generate_receipt_key(category_id, submission_id, filename) ==
    <<"receipts", category_id, submission_id, now, SafeFilename(filename)>>

\* botocore's ClientError with the error code of the response
ClientError(code) ==
    [code |-> 500, kind |-> "ClientError", detail |-> <<code>>, status |-> ""]

\* s3_client.head_bucket(Bucket=...) on a bucket in state b
head_bucket(b) ==
    CASE b = "owned" -> Return(NULL)
      [] b = "missing" -> Raise(ClientError("404"))
      [] b = "foreign" -> Raise(ClientError("403"))

\* s3_client.create_bucket(Bucket=...) on a bucket in state b
create_bucket(b) ==
    CASE b = "missing" -> Return(NULL)
      [] b = "owned" -> Raise(ClientError("BucketAlreadyOwnedByYou"))
      [] b = "foreign" -> Raise(ClientError("BucketAlreadyExists"))

\* a faulty variant: every create_bucket error is raised
CreateErrorTolerated_none(code) == FALSE

\* if create_error.response['Error']['Code'] != 'BucketAlreadyOwnedByYou': raise
CreateErrorTolerated(code) == code = "BucketAlreadyOwnedByYou"

----------------------------------------------------------------------------
(* Requests *)

\* the inputs of a request; a field an endpoint does not take keeps its default
NoRequest ==
    [op |-> "none", user |-> NULL, target |-> NULL, note |-> None,
     token |-> TokenOf(0), patch |-> <<>>, form |-> <<>>,
     filename |-> <<>>, size |-> 0, upload_ok |-> TRUE, commit_ok |-> TRUE,
     email |-> "", password |-> "", jwt |-> NoJwt, status_filter |-> None]

Idle == [pc |-> "idle", req |-> NoRequest, row |-> NoRow, category |-> NULL]

\* admin_note values of a request body: absent, "", and a reason
Notes == {None, "", "verified"}

\* the status_filter query parameter: absent, or a SubmissionStatus
StatusFilters == {None} \cup SubmissionStatus

\* CategoryUpdate bodies (model_dump(exclude_unset=True)): the fields sent
Patches ==
    { <<>> } \cup { [expires_at |-> t] : t \in 1..(MaxTime - 1) }
    \cup { [title |-> "June Fees", expires_at |-> NULL] }
    \cup { [expires_at |-> 1, public_token |-> TokenOf(0), admin_id |-> NumUsers + 1],
           [title |-> None],
           [title |-> ""] }

\* student_name, student_phone, amount_paid of the multipart form
Forms ==
    { <<"Jane Smith", "+1234567890", 50>>,
      <<"J", "+1234567890", 50>>,
      <<"Jane Smith", "123", 50>>,
      <<"Jane Smith", "+1234567890", 0>> }

Filenames ==
    { <<"r", ".", "J", "P", "G">>,
      <<"m", " ", "r", ".", "p", "d", "f">>,
      <<"r", ".", "e", "x", "e">> }

FileSizes == {1024, MAX_UPLOAD_SIZE + 1}

\* email and password of RegisterRequest and LoginRequest; the emails differ
\* in the case of one letter or altogether
Emails == {"alice@example.edu", "Alice@example.edu", "bob@example.edu"}
Passwords == {"pw12345678", "letmein123", "short"}

\* tokens a client may present: any claims under a valid signature, expired
\* or not, and a token whose signature does not verify
BearerTokens ==
    { Jwt(sub, type, exp) :
         sub \in {PyNone} \cup {PyStr(n) : n \in Users},
         type \in {"access", "refresh"},
         exp \in {1, MaxTime + 1} }
    \cup {NoJwt}

Nothing == [req |-> NoRequest, pc |-> "start", resp |-> NoResponse]

\* the request finished with response resp while in handler phase pc
Finish(q, pc, resp) ==
    last' = [req |-> q, pc |-> pc, resp |-> resp]

\* the response leaves the server; no handler reads it
Respond ==
    /\ last # Nothing
    /\ last' = Nothing
    /\ UNCHANGED <<bucket, workers, users, categories, submissions, blobs, now, inflight>>

----------------------------------------------------------------------------
(* api/submissions.py and api/categories.py: ownership helpers *)

\* a faulty variant: the query filters on the id only
get_category_by_id_any_owner(category_id, user) ==
    IF category_id \in DOMAIN categories
    THEN Return(category_id)
    ELSE Raise(NotFoundError(<<"Category not found or access denied">>))

\* a faulty variant: a category of another admin is refused in other words
get_category_by_id_then_owner(category_id, user) ==
    IF category_id \notin DOMAIN categories
    THEN Raise(NotFoundError(<<"Category not found">>))
    ELSE IF categories[category_id].admin_id # user
    THEN Raise(NotFoundError(<<"Category access denied">>))
    ELSE Return(category_id)

get_category_by_id_and_owner(category_id, user) ==
    IF \E c \in DOMAIN categories :
          c = category_id /\ categories[c].admin_id = user
    THEN Return(category_id)
    ELSE Raise(NotFoundError(<<"Category not found or access denied">>))

\* a faulty variant: the category must also be active and unexpired
get_submission_with_open_category_check(submission_id, user) ==
    IF submission_id \notin DOMAIN submissions
    THEN Raise(NotFoundError(<<"Submission not found">>))
    ELSE IF \E c \in DOMAIN categories :
               /\ c = submissions[submission_id].category_id
               /\ categories[c].admin_id = user
               /\ categories[c].is_active
               /\ ~(categories[c].expires_at # NULL /\ categories[c].expires_at < now)
         THEN Return(submission_id)
         ELSE Raise(NotFoundError(<<"Submission not found or access denied">>))

\* a faulty variant: the category of the submission is not looked at
get_submission_without_category_check(submission_id, user) ==
    IF submission_id \notin DOMAIN submissions
    THEN Raise(NotFoundError(<<"Submission not found">>))
    ELSE Return(submission_id)

get_submission_with_category_check(submission_id, user) ==
    IF submission_id \notin DOMAIN submissions
    THEN Raise(NotFoundError(<<"Submission not found">>))
    ELSE IF \E c \in DOMAIN categories :
               /\ c = submissions[submission_id].category_id
               /\ categories[c].admin_id = user
         THEN Return(submission_id)
         ELSE Raise(NotFoundError(<<"Submission not found or access denied">>))

----------------------------------------------------------------------------
(* api/submissions.py: read endpoints *)

\* the sequences that hold each element of the finite set S once
Orderings(S) ==
    {f \in [1..Cardinality(S) -> S] :
        \A i, j \in 1..Cardinality(S) : f[i] = f[j] => i = j}

\* query.order_by(key.desc()).all() and query.order_by(key.asc()).all(): the
\* rows in an order the keys allow; the database returns rows with equal
\* keys in any order
OrderByDesc(S, key) ==
    {f \in Orderings(S) :
        \A i, j \in 1..Cardinality(S) : i < j => key[f[i]] >= key[f[j]]}

OrderByAsc(S, key) ==
    {f \in Orderings(S) :
        \A i, j \in 1..Cardinality(S) : i < j => key[f[i]] <= key[f[j]]}

SubmittedAt == [s \in DOMAIN submissions |-> submissions[s].submitted_at]
CreatedAt == [c \in DOMAIN categories |-> categories[c].created_at]

\* storage_service.generate_presigned_url: the URL is computed from the key
\* and the expiration, without a request to the object store
generate_presigned_url(key, expiration) == <<"presigned", key, expiration>>

\* the dict list_submissions builds for one row
SubmissionDict(s) ==
    [id |-> s,
     category_id |-> submissions[s].category_id,
     student_name |-> submissions[s].student_name,
     student_phone |-> submissions[s].student_phone,
     amount_paid |-> submissions[s].amount_paid,
     receipt_url |-> submissions[s].receipt_url,
     receipt_signed_url |-> generate_presigned_url(submissions[s].receipt_url, 3600),
     status |-> submissions[s].status,
     admin_note |-> submissions[s].admin_note,
     submitted_at |-> submissions[s].submitted_at,
     reviewed_at |-> submissions[s].reviewed_at,
     reviewed_by |-> submissions[s].reviewed_by]

\* a faulty variant: the status filter is not applied
SubmissionsQuery_unfiltered(category_id, status_filter) ==
    {s \in DOMAIN submissions : submissions[s].category_id = category_id}

\* db.query(PaymentSubmission).filter(category_id == ...), and
\* .filter(status == status_filter) if status_filter
SubmissionsQuery(category_id, status_filter) ==
    {s \in DOMAIN submissions :
        /\ submissions[s].category_id = category_id
        /\ status_filter # None => submissions[s].status = status_filter}

list_submissions(u, c, status_filter) ==
    LET q == [NoRequest EXCEPT !.op = "list_submissions", !.user = u,
                               !.target = c, !.status_filter = status_filter]
        category == get_category_by_id_and_owner(c, u)
    IN  /\ last = Nothing
        /\ IF category.raised
           THEN Finish(q, "start", category.exc)
           ELSE \E order \in OrderByDesc(SubmissionsQuery(c, status_filter),
                                          SubmittedAt) :
                   Finish(q, "start",
                          [Response(200, "") EXCEPT !.detail =
                              [i \in 1..Cardinality(SubmissionsQuery(c, status_filter))
                                  |-> SubmissionDict(order[i])]])
        /\ UNCHANGED <<bucket, workers, users, categories, submissions, blobs, now, inflight>>

get_submission(u, s) ==
    LET q == [NoRequest EXCEPT !.op = "get_submission", !.user = u, !.target = s]
        submission == get_submission_with_category_check(s, u)
    IN  /\ last = Nothing
        /\ Finish(q, "start",
                  IF submission.raised THEN submission.exc
                  ELSE Response(200, submissions[s].status))
        /\ UNCHANGED <<bucket, workers, users, categories, submissions, blobs, now, inflight>>

CsvHeader ==
    <<"ID", "Student Name", "Phone", "Amount Paid", "Status", "Submitted At",
      "Reviewed At", "Reviewed By", "Admin Note", "Receipt URL">>

\* str(x), x.isoformat(), and "" for the value that is not there
PyText(x) == <<"str", x>>
isoformat(t) == <<"iso", t>>
Blank == <<>>

\* the list writer.writerow gets for one submission
CsvRow(s) ==
    LET sub == submissions[s]
    IN  <<PyText(s), sub.student_name, sub.student_phone, PyText(sub.amount_paid),
          sub.status,
          IF sub.submitted_at # NULL THEN isoformat(sub.submitted_at) ELSE Blank,
          IF sub.reviewed_at # NULL THEN isoformat(sub.reviewed_at) ELSE Blank,
          IF sub.reviewed_by # NULL THEN PyText(sub.reviewed_by) ELSE Blank,
          IF sub.admin_note \in {None, ""} THEN "" ELSE sub.admin_note,
          sub.receipt_url>>

\* a faulty variant: the query orders as list_submissions does
ExportOrder_newest_first(category_id) ==
    OrderByDesc({s \in DOMAIN submissions :
                    submissions[s].category_id = category_id}, SubmittedAt)

\* db.query(PaymentSubmission).filter(category_id == ...)
\*   .order_by(PaymentSubmission.submitted_at.asc()).all()
ExportOrder(category_id) ==
    OrderByAsc({s \in DOMAIN submissions :
                   submissions[s].category_id = category_id}, SubmittedAt)

export_submissions_csv(u, c) ==
    LET q == [NoRequest EXCEPT !.op = "export_submissions_csv", !.user = u, !.target = c]
        category == get_category_by_id_and_owner(c, u)
    IN  /\ last = Nothing
        /\ IF category.raised
           THEN Finish(q, "start", category.exc)
           ELSE \E order \in ExportOrder(c) :
                   Finish(q, "start",
                          [Response(200, "") EXCEPT !.detail =
                              [i \in 1..(Cardinality(DOMAIN order) + 1) |->
                                  IF i = 1 THEN CsvHeader ELSE CsvRow(order[i - 1])]])
        /\ UNCHANGED <<bucket, workers, users, categories, submissions, blobs, now, inflight>>

----------------------------------------------------------------------------
(* api/submissions.py: confirm_submission and reject_submission *)

\* ConfirmSubmissionRequest: admin_note is Optional, max_length 1000
ConfirmSubmissionRequest(note) ==
    note = None \/ StrLen(note) <= 1000

\* a faulty variant: admin_note is required but may be empty
RejectSubmissionRequest_no_min_length(note) ==
    note # None /\ StrLen(note) <= 1000

\* RejectSubmissionRequest: admin_note is required, min_length 1
RejectSubmissionRequest(note) ==
    note # None /\ StrLen(note) >= 1 /\ StrLen(note) <= 1000

TargetStatus(op) == IF op = "confirm_submission" THEN CONFIRMED ELSE REJECTED
Verb(op) == IF op = "confirm_submission" THEN "confirm" ELSE "reject"

\* a faulty variant: the handler does not look at the current status
ReviewLoad_any_status(r, q) ==
    LET submission == get_submission_with_category_check(q.target, q.user)
    IN  IF submission.raised
        THEN /\ Finish(q, "start", submission.exc)
             /\ UNCHANGED inflight
        ELSE /\ inflight' = [inflight EXCEPT ![r] =
                    [pc |-> "loaded", req |-> q, row |-> submissions[q.target],
                     category |-> NULL]]
             /\ UNCHANGED last

\* the lines up to the status check: the handler's SELECTs
ReviewLoad(r, q) ==
    LET submission == get_submission_with_category_check(q.target, q.user)
    IN  IF submission.raised
        THEN /\ Finish(q, "start", submission.exc)
             /\ UNCHANGED inflight
        ELSE IF submissions[q.target].status # PENDING
        THEN /\ Finish(q, "start",
                       BadRequestError(<<"Cannot", Verb(q.op), "submission with status",
                                         submissions[q.target].status>>))
             /\ UNCHANGED inflight
        ELSE /\ inflight' = [inflight EXCEPT ![r] =
                    [pc |-> "loaded", req |-> q, row |-> submissions[q.target],
                     category |-> NULL]]
             /\ UNCHANGED last

confirm_submission(r, u, s, note) ==
    LET q == [NoRequest EXCEPT !.op = "confirm_submission", !.user = u,
                               !.target = s, !.note = note]
    IN  /\ last = Nothing
        /\ inflight[r].pc = "idle"
        /\ IF ~ConfirmSubmissionRequest(note)
           THEN Finish(q, "start", RequestValidationError("admin_note"))
                /\ UNCHANGED inflight
           ELSE ReviewLoad(r, q)
        /\ UNCHANGED <<bucket, workers, users, categories, submissions, blobs, now>>

reject_submission(r, u, s, note) ==
    LET q == [NoRequest EXCEPT !.op = "reject_submission", !.user = u,
                               !.target = s, !.note = note]
    IN  /\ last = Nothing
        /\ inflight[r].pc = "idle"
        /\ IF ~RejectSubmissionRequest(note)
           THEN Finish(q, "start", RequestValidationError("admin_note"))
                /\ UNCHANGED inflight
           ELSE ReviewLoad(r, q)
        /\ UNCHANGED <<bucket, workers, users, categories, submissions, blobs, now>>

\* a faulty variant: the reviewer is not recorded
ReviewAssign_no_reviewer(row, q) ==
    [row EXCEPT !.status = TargetStatus(q.op), !.admin_note = q.note,
                !.reviewed_at = now]

\* the four assignments on the loaded object
ReviewAssign(row, q) ==
    [row EXCEPT !.status = TargetStatus(q.op), !.admin_note = q.note,
                !.reviewed_at = now, !.reviewed_by = q.user]

\* db.commit(): the unit of work emits one UPDATE ... WHERE id = :id that sets
\* the attributes whose value differs from the loaded one
Flush(committed, loaded, assigned) ==
    [f \in DOMAIN committed |->
        IF assigned[f] # loaded[f] THEN assigned[f] ELSE committed[f]]

\* db.commit(); db.refresh(submission); return SubmissionResponse(...)
ReviewCommit(r) ==
    /\ last = Nothing
    /\ inflight[r].pc = "loaded"
    /\ LET q == inflight[r].req
           s == q.target
           row == Flush(submissions[s], inflight[r].row,
                        ReviewAssign(inflight[r].row, q))
       IN  /\ submissions' = [submissions EXCEPT ![s] = row]
           /\ Finish(q, "commit", Response(200, row.status))
    /\ inflight' = [inflight EXCEPT ![r] = Idle]
    /\ UNCHANGED <<bucket, workers, users, categories, blobs, now>>

----------------------------------------------------------------------------
(* api/categories.py *)

\* a faulty variant: the count query is not restricted to the category
StatusCounts_all_categories(category_id) ==
    { <<st, Cardinality({s \in DOMAIN submissions : submissions[s].status = st})>> :
         st \in {submissions[s].status : s \in DOMAIN submissions} }

\* SELECT status, count(id) FROM payment_submissions
\*   WHERE category_id = :id GROUP BY status: one pair per status that occurs
StatusCounts(category_id) ==
    LET rows == {s \in DOMAIN submissions :
                    submissions[s].category_id = category_id}
    IN  { <<st, Cardinality({s \in rows : submissions[s].status = st})>> :
             st \in {submissions[s].status : s \in rows} }

\* counts[...] = 0, then the loop over status_counts
CountFor(status_counts, status_value) ==
    IF \E g \in status_counts : g[1] = status_value
    THEN (CHOOSE g \in status_counts : g[1] = status_value)[2]
    ELSE 0

add_submission_counts(c) ==
    LET category == categories[c]
        status_counts == StatusCounts(c)
    IN  [id |-> c,
         admin_id |-> category.admin_id,
         title |-> category.title,
         description |-> category.description,
         amount_expected |-> category.amount_expected,
         public_token |-> category.public_token,
         is_active |-> category.is_active,
         created_at |-> category.created_at,
         expires_at |-> category.expires_at,
         pending_count |-> CountFor(status_counts, PENDING),
         confirmed_count |-> CountFor(status_counts, CONFIRMED),
         rejected_count |-> CountFor(status_counts, REJECTED)]

list_categories(u) ==
    LET q == [NoRequest EXCEPT !.op = "list_categories", !.user = u]
        own == {c \in DOMAIN categories : categories[c].admin_id = u}
    IN  /\ last = Nothing
        /\ \E order \in OrderByDesc(own, CreatedAt) :
              Finish(q, "start",
                     [Response(200, "") EXCEPT !.detail =
                         [i \in 1..Cardinality(own) |->
                             add_submission_counts(order[i])]])
        /\ UNCHANGED <<bucket, workers, users, categories, submissions, blobs, now, inflight>>

get_category(u, c) ==
    LET q == [NoRequest EXCEPT !.op = "get_category", !.user = u, !.target = c]
        category == get_category_by_id_and_owner(c, u)
    IN  /\ last = Nothing
        /\ Finish(q, "start",
                  IF category.raised THEN category.exc
                  ELSE [Response(200, "") EXCEPT !.detail =
                           <<add_submission_counts(c)>>])
        /\ UNCHANGED <<bucket, workers, users, categories, submissions, blobs, now, inflight>>

\* a faulty variant: the model keeps the keys it does not declare
\* (extra = "allow")
CategoryUpdate_allow_extra(body) == Return(body)

\* CategoryUpdate(**body).model_dump(exclude_unset=True): the declared fields
\* that the body sets; keys the model does not declare are ignored, and a
\* title shorter than one character is refused (None passes: Optional[str])
CategoryUpdate(body) ==
    IF "title" \in DOMAIN body /\ body.title # None /\ StrLen(body.title) < 1
    THEN Raise(RequestValidationError("title"))
    ELSE Return([f \in DOMAIN body \cap
                      {"title", "description", "amount_expected", "expires_at"}
                   |-> body[f]])

\* for field, value in update_data.items(): setattr(category, field, value)
ApplyPatch(row, patch) ==
    [f \in DOMAIN row |-> IF f \in DOMAIN patch THEN patch[f] ELSE row[f]]

\* the body is parsed before the handler runs; db.commit() is refused by the
\* NOT NULL constraint on categories.title
update_category(u, c, patch) ==
    LET q == [NoRequest EXCEPT !.op = "update_category", !.user = u,
                               !.target = c, !.patch = patch]
        request == CategoryUpdate(patch)
        category == get_category_by_id_and_owner(c, u)
        row == ApplyPatch(categories[c], request.value)
    IN  /\ last = Nothing
        /\ IF request.raised
           THEN /\ Finish(q, "start", request.exc)
                /\ UNCHANGED categories
           ELSE IF category.raised
           THEN /\ Finish(q, "start", category.exc)
                /\ UNCHANGED categories
           ELSE IF row.title = None
           THEN /\ Finish(q, "start", InternalServerError("IntegrityError"))
                /\ UNCHANGED categories
           ELSE /\ categories' = [categories EXCEPT ![c] = row]
                /\ Finish(q, "start", Response(200, ""))
        /\ UNCHANGED <<bucket, workers, users, submissions, blobs, now, inflight>>

\* a faulty variant: the flag is flipped, whatever the endpoint
SetActive_toggle(op, u, c, active) ==
    LET q == [NoRequest EXCEPT !.op = op, !.user = u, !.target = c]
        category == get_category_by_id_and_owner(c, u)
    IN  /\ last = Nothing
        /\ IF category.raised
           THEN /\ Finish(q, "start", category.exc)
                /\ UNCHANGED categories
           ELSE /\ categories' = [categories EXCEPT ![c].is_active = ~@]
                /\ Finish(q, "start", Response(200, ""))
        /\ UNCHANGED <<bucket, workers, users, submissions, blobs, now, inflight>>

\* category.is_active = active; db.commit()
SetActive(op, u, c, active) ==
    LET q == [NoRequest EXCEPT !.op = op, !.user = u, !.target = c]
        category == get_category_by_id_and_owner(c, u)
    IN  /\ last = Nothing
        /\ IF category.raised
           THEN /\ Finish(q, "start", category.exc)
                /\ UNCHANGED categories
           ELSE /\ categories' = [categories EXCEPT ![c].is_active = active]
                /\ Finish(q, "start", Response(200, ""))
        /\ UNCHANGED <<bucket, workers, users, submissions, blobs, now, inflight>>

deactivate_category(u, c) == SetActive("deactivate_category", u, c, FALSE)

activate_category(u, c) == SetActive("activate_category", u, c, TRUE)

----------------------------------------------------------------------------
(* api/public.py *)

\* a faulty variant: the query filters on the token only
CategoryByToken_any_state(token) ==
    LET found == {c \in DOMAIN categories : categories[c].public_token = token}
    IN  IF found = {} THEN NULL ELSE CHOOSE c \in found : TRUE

\* db.query(Category).filter(public_token == token, is_active == True).first()
ActiveCategoryByToken(token) ==
    LET found == {c \in DOMAIN categories :
                     /\ categories[c].public_token = token
                     /\ categories[c].is_active}
    IN  IF found = {} THEN NULL ELSE CHOOSE c \in found : TRUE

\* category.expires_at and category.expires_at < datetime.utcnow()
Expired(c) ==
    categories[c].expires_at # NULL /\ categories[c].expires_at < now

get_public_category(token) ==
    LET q == [NoRequest EXCEPT !.op = "get_public_category", !.token = token]
        category == ActiveCategoryByToken(token)
    IN  /\ last = Nothing
        /\ Finish(q, "start",
              IF category = NULL
              THEN NotFoundError(<<"Category not found or no longer active">>)
              ELSE IF Expired(category)
              THEN NotFoundError(<<"This category has expired and is no longer accepting submissions">>)
              ELSE [Response(200, "") EXCEPT !.detail = <<category>>])
        /\ UNCHANGED <<bucket, workers, users, categories, submissions, blobs, now, inflight>>

\* Form(..., min_length=2, max_length=255), Form(..., min_length=5,
\* max_length=20), Form(..., gt=0)
SubmitForm(form) ==
    IF StrLen(form[1]) < 2 \/ StrLen(form[1]) > 255
    THEN Raise(RequestValidationError("student_name"))
    ELSE IF StrLen(form[2]) < 5 \/ StrLen(form[2]) > 20
    THEN Raise(RequestValidationError("student_phone"))
    ELSE IF ~(form[3] > 0)
    THEN Raise(RequestValidationError("amount_paid"))
    ELSE Return(NULL)

\* submit_payment up to the expiry check: the category SELECT
submit_payment(r, token, form) ==
    LET q == [NoRequest EXCEPT !.op = "submit_payment", !.token = token,
                               !.form = form]
        valid == SubmitForm(form)
        category == ActiveCategoryByToken(token)
    IN  /\ last = Nothing
        /\ inflight[r].pc = "idle"
        /\ IF valid.raised
           THEN /\ Finish(q, "start", valid.exc)
                /\ UNCHANGED inflight
           ELSE IF category = NULL
           THEN /\ Finish(q, "start",
                      NotFoundError(<<"Category not found or no longer active">>))
                /\ UNCHANGED inflight
           ELSE IF Expired(category)
           THEN /\ Finish(q, "start",
                      BadRequestError(<<"This category has expired and is no longer accepting submissions">>))
                /\ UNCHANGED inflight
           ELSE /\ inflight' = [inflight EXCEPT ![r] =
                       [pc |-> "resolved", req |-> q, row |-> NoRow,
                        category |-> category]]
                /\ UNCHANGED last
        /\ UNCHANGED <<bucket, workers, users, categories, submissions, blobs, now>>

\* uuid.uuid4(): an id no row has
FreshSubmissionId == CHOOSE s \in SubmissionIds : s \notin DOMAIN submissions

\* storage_service.upload_file: the object is stored, or the client raises
upload_file(upload_ok, key) ==
    IF upload_ok THEN Return(key)
    ELSE Raise(BadRequestError(<<"File upload failed">>))

\* submit_payment from validate_file_extension on.  The receipt part of the
\* request (file name, size) is first read here; upload_ok is whether the
\* object store accepts the upload, commit_ok whether the database accepts
\* the commit that follows it.  The row flushed with the placeholder key is
\* visible to this session only until db.commit().
SubmitStore(r, filename, size, upload_ok, commit_ok) ==
    /\ last = Nothing
    /\ inflight[r].pc = "resolved"
    /\ \E s \in SubmissionIds : s \notin DOMAIN submissions
    /\ LET q == [inflight[r].req EXCEPT !.filename = filename, !.size = size,
                                        !.upload_ok = upload_ok,
                                        !.commit_ok = commit_ok]
           category == inflight[r].category
           ext == validate_file_extension(filename)
           file_size == validate_file_size(<<size>>)
           id == FreshSubmissionId
           flushed == PaymentSubmission(category, q.form[1], q.form[2],
                                        q.form[3], NoKey)
           receipt_key == generate_receipt_key(category, id, filename)
           uploaded == upload_file(upload_ok, receipt_key)
       IN  IF ext.raised
           THEN /\ Finish(q, "store", ext.exc)
                /\ UNCHANGED <<submissions, blobs>>
           ELSE IF file_size.raised
           THEN /\ Finish(q, "store", file_size.exc)
                /\ UNCHANGED <<submissions, blobs>>
           ELSE IF uploaded.raised
           THEN \* except Exception: db.rollback()
                /\ Finish(q, "store", BadRequestError(<<"File upload failed">>))
                /\ UNCHANGED <<submissions, blobs>>
           ELSE IF ~commit_ok
           THEN \* except Exception: db.rollback(); the object stays stored
                /\ blobs' = blobs \cup {receipt_key}
                /\ Finish(q, "store", BadRequestError(<<"File upload failed">>))
                /\ UNCHANGED submissions
           ELSE /\ blobs' = blobs \cup {receipt_key}
                /\ submissions' =
                      [s \in DOMAIN submissions \cup {id} |->
                          IF s = id
                          THEN [flushed EXCEPT !.receipt_url = receipt_key]
                          ELSE submissions[s]]
                /\ Finish(q, "store", Response(201, PENDING))
    /\ inflight' = [inflight EXCEPT ![r] = Idle]
    /\ UNCHANGED <<bucket, workers, users, categories, now>>

----------------------------------------------------------------------------
(* api/auth.py *)

\* db.query(User).filter(User.email == email).first(): exact comparison
UserByEmail(email) ==
    IF \E u \in DOMAIN users : users[u].email = email
    THEN CHOOSE u \in DOMAIN users : users[u].email = email
    ELSE NULL

\* db.query(User).filter(User.id == user_id).first(): the id as a UUID object
\* or as its str
UserById(user_id) ==
    IF \E u \in DOMAIN users : user_id \in {PyUUID(u), PyStr(u)}
    THEN CHOOSE u \in DOMAIN users : user_id \in {PyUUID(u), PyStr(u)}
    ELSE NULL

\* RegisterRequest: name 2..255, password 8..72 characters
RegisterRequest(name, email, password) ==
    /\ StrLen(name) >= 2 /\ StrLen(name) <= 255
    /\ StrLen(password) >= 8 /\ StrLen(password) <= 72

TokenResponse(code, access_token, refresh_token) ==
    [Response(code, "") EXCEPT !.detail = <<access_token, refresh_token>>]

\* create_access_token / create_refresh_token for user.id and the TokenResponse
IssueTokens(code, user) ==
    LET access_token == create_access_token([sub |-> PyUUID(user)])
        refresh_token == create_refresh_token([sub |-> PyUUID(user)])
    IN  IF access_token.raised THEN access_token.exc
        ELSE IF refresh_token.raised THEN refresh_token.exc
        ELSE TokenResponse(code, access_token.value, refresh_token.value)

\* register up to the ConflictError: the SELECT by email
register(r, email, password) ==
    LET q == [NoRequest EXCEPT !.op = "register", !.email = email,
                               !.password = password]
    IN  /\ last = Nothing
        /\ inflight[r].pc = "idle"
        /\ IF ~RegisterRequest("Alice Rep", email, password)
           THEN /\ Finish(q, "start", RequestValidationError("password"))
                /\ UNCHANGED inflight
           ELSE IF UserByEmail(email) # NULL
           THEN /\ Finish(q, "start", ConflictError(<<"Email already registered">>))
                /\ UNCHANGED inflight
           ELSE /\ inflight' = [inflight EXCEPT ![r] =
                       [pc |-> "checked", req |-> q, row |-> NoRow,
                        category |-> NULL]]
                /\ UNCHANGED last
        /\ UNCHANGED <<bucket, workers, users, categories, submissions, blobs, now>>

FreshUserId == CHOOSE u \in Users : u \notin DOMAIN users

\* register from db.add(user): the INSERT is refused by the unique constraint
\* on users.email when a row with the email has been committed meanwhile
RegisterCommit(r) ==
    /\ last = Nothing
    /\ inflight[r].pc = "checked"
    /\ LET q == inflight[r].req
           id == FreshUserId
       IN  IF UserByEmail(q.email) # NULL
           THEN /\ Finish(q, "commit", InternalServerError("IntegrityError"))
                /\ UNCHANGED users
           ELSE /\ \E u \in Users : u \notin DOMAIN users
                /\ users' = [u \in DOMAIN users \cup {id} |->
                               IF u = id
                               THEN User("Alice Rep", q.email,
                                         get_password_hash(q.password))
                               ELSE users[u]]
                /\ Finish(q, "commit", IssueTokens(201, id))
    /\ inflight' = [inflight EXCEPT ![r] = Idle]
    /\ UNCHANGED <<bucket, workers, categories, submissions, blobs, now>>

login(email, password) ==
    LET q == [NoRequest EXCEPT !.op = "login", !.email = email,
                               !.password = password]
        user == UserByEmail(email)
        verified == verify_password(password, users[user].password_hash)
    IN  /\ last = Nothing
        /\ Finish(q, "start",
              IF user = NULL
              THEN AuthenticationError(<<"Incorrect email or password">>)
              ELSE IF verified.raised THEN verified.exc
              ELSE IF ~verified.value
              THEN AuthenticationError(<<"Incorrect email or password">>)
              ELSE IssueTokens(200, user))
        /\ UNCHANGED <<bucket, workers, users, categories, submissions, blobs, now, inflight>>

\* the try block of refresh_access_token: except Exception turns whatever is
\* raised in it, its own AuthenticationError included, into AuthenticationError
RefreshSubject(token) ==
    LET payload == decode_token(token)
    IN  IF payload.raised
        THEN Raise(AuthenticationError(
                 <<"Could not validate refresh token">> \o payload.exc.detail))
        ELSE IF payload.value.type # "refresh"
        THEN Raise(AuthenticationError(
                 <<"Could not validate refresh token", "Invalid token type">>))
        ELSE IF payload.value.sub = PyNone
        THEN Raise(AuthenticationError(
                 <<"Could not validate refresh token", "Invalid token payload">>))
        ELSE Return(payload.value.sub)

refresh_access_token(token) ==
    LET q == [NoRequest EXCEPT !.op = "refresh_access_token", !.jwt = token]
        user_id == RefreshSubject(token)
        user == UserById(user_id.value)
        new_access_token == create_access_token([sub |-> PyUUID(user)])
    IN  /\ last = Nothing
        /\ Finish(q, "start",
              IF user_id.raised THEN user_id.exc
              ELSE IF user = NULL THEN AuthenticationError(<<"User not found">>)
              ELSE IF new_access_token.raised THEN new_access_token.exc
              ELSE TokenResponse(200, new_access_token.value, token))
        /\ UNCHANGED <<bucket, workers, users, categories, submissions, blobs, now, inflight>>

----------------------------------------------------------------------------
(* api/deps.py *)

\* a faulty variant: the type claim is not looked at
get_current_user_any_type(token) ==
    LET payload == decode_token(token)
        user == UserById(payload.value.sub)
    IN  IF payload.raised
        THEN Raise(AuthenticationError(
                 <<"Could not validate credentials">> \o payload.exc.detail))
        ELSE IF payload.value.sub = PyNone
        THEN Raise(AuthenticationError(<<"Invalid token payload">>))
        ELSE IF user = NULL
        THEN Raise(AuthenticationError(<<"User not found">>))
        ELSE Return(user)

get_current_user(token) ==
    LET payload == decode_token(token)
        user == UserById(payload.value.sub)
    IN  IF payload.raised
        THEN Raise(AuthenticationError(
                 <<"Could not validate credentials">> \o payload.exc.detail))
        ELSE IF payload.value.type # "access"
        THEN Raise(AuthenticationError(<<"Invalid token type">>))
        ELSE IF payload.value.sub = PyNone
        THEN Raise(AuthenticationError(<<"Invalid token payload">>))
        ELSE IF user = NULL
        THEN Raise(AuthenticationError(<<"User not found">>))
        ELSE Return(user)

----------------------------------------------------------------------------
(* api/categories.py: create_category *)

FreshCategoryId == CHOOSE c \in CategoryIds : c \notin DOMAIN categories

\* a faulty variant: the column has no unique constraint
TokenTaken_unconstrained(public_token) == FALSE

\* the unique constraint on categories.public_token
TokenTaken(public_token) ==
    \E c \in DOMAIN categories : categories[c].public_token = public_token

\* n is the draw of secrets.token_urlsafe
create_category(u, n, expires_at) ==
    LET q == [NoRequest EXCEPT !.op = "create_category", !.user = u]
        public_token == token_urlsafe(TOKEN_BYTES, n)
        id == FreshCategoryId
    IN  /\ last = Nothing
        /\ \E c \in CategoryIds : c \notin DOMAIN categories
        /\ IF TokenTaken(public_token)
           THEN /\ Finish(q, "start", InternalServerError("IntegrityError"))
                /\ UNCHANGED categories
           ELSE /\ categories' = [c \in DOMAIN categories \cup {id} |->
                                    IF c = id
                                    THEN Category(u, public_token, expires_at)
                                    ELSE categories[c]]
                /\ Finish(q, "start", [Response(201, "") EXCEPT !.detail = <<id>>])
        /\ UNCHANGED <<bucket, workers, users, submissions, blobs, now, inflight>>

\* an endpoint with current_user = Depends(get_current_user): the dependency
\* runs first and its exception is the response; otherwise the handler runs
\* with the user it returned
BearerEndpoint(token) ==
    LET q == [NoRequest EXCEPT !.op = "get_current_user", !.jwt = token]
        current_user == get_current_user(token)
    IN  IF current_user.raised
        THEN /\ last = Nothing
             /\ Finish(q, "start", current_user.exc)
             /\ UNCHANGED <<bucket, workers, users, categories, submissions, blobs, now, inflight>>
        ELSE \/ \E n \in 0..NumUsers, expires_at \in {NULL, 1} :
                   create_category(current_user.value, n, expires_at)
             \/ \E c \in CategoryIds : get_category(current_user.value, c)
             \/ \E c \in CategoryIds : deactivate_category(current_user.value, c)
             \/ \E c \in CategoryIds : activate_category(current_user.value, c)
             \/ \E c \in CategoryIds, status_filter \in StatusFilters :
                   list_submissions(current_user.value, c, status_filter)
             \/ \E s \in SubmissionIds : get_submission(current_user.value, s)

----------------------------------------------------------------------------
(* services/storage_service.py: StorageService() at process start *)

\* __init__ and _ensure_bucket_exists up to create_bucket: head_bucket, and
\* the error code of its ClientError; a code other than 404 is passed over
StorageService_init(w) ==
    LET q == [NoRequest EXCEPT !.op = "head_bucket", !.target = w]
        head == head_bucket(bucket)
    IN  /\ last = Nothing
        /\ workers[w] = "down"
        /\ IF ~head.raised
           THEN /\ workers' = [workers EXCEPT ![w] = "up"]
                /\ Finish(q, "start", Response(200, ""))
           ELSE IF head.exc.detail[1] = "404"
           THEN /\ workers' = [workers EXCEPT ![w] = "creating"]
                /\ UNCHANGED last
           ELSE /\ workers' = [workers EXCEPT ![w] = "up"]
                /\ Finish(q, "start",
                          [Response(200, "") EXCEPT !.detail = head.exc.detail])
        /\ UNCHANGED <<bucket, users, categories, submissions, blobs, now, inflight>>

\* _ensure_bucket_exists from create_bucket on; an exception it raises ends
\* the import of the module, and with it the process
ensure_bucket_create(w) ==
    LET q == [NoRequest EXCEPT !.op = "create_bucket", !.target = w]
        created == create_bucket(bucket)
    IN  /\ last = Nothing
        /\ workers[w] = "creating"
        /\ IF ~created.raised
           THEN /\ bucket' = "owned"
                /\ workers' = [workers EXCEPT ![w] = "up"]
                /\ Finish(q, "create", Response(200, ""))
           ELSE IF CreateErrorTolerated(created.exc.detail[1])
           THEN /\ workers' = [workers EXCEPT ![w] = "up"]
                /\ Finish(q, "create",
                          [Response(200, "") EXCEPT !.detail = created.exc.detail])
                /\ UNCHANGED bucket
           ELSE /\ workers' = [workers EXCEPT ![w] = "crashed"]
                /\ Finish(q, "create", created.exc)
                /\ UNCHANGED bucket
        /\ UNCHANGED <<users, categories, submissions, blobs, now, inflight>>

\* storage_service.upload_file called in a process that is up
StoreReceipt(w, key) ==
    LET q == [NoRequest EXCEPT !.op = "upload_file", !.target = w]
        uploaded == upload_file(bucket = "owned", key)
    IN  /\ last = Nothing
        /\ workers[w] = "up"
        /\ IF uploaded.raised
           THEN /\ Finish(q, "start", uploaded.exc)
                /\ UNCHANGED blobs
           ELSE /\ blobs' = blobs \cup {key}
                /\ Finish(q, "start", [Response(200, "") EXCEPT !.detail = key])
        /\ UNCHANGED <<bucket, workers, users, categories, submissions, now, inflight>>

\* another account of the object store takes the bucket name
ForeignCreate ==
    /\ last = Nothing
    /\ bucket = "missing"
    /\ bucket' = "foreign"
    /\ UNCHANGED <<workers, users, categories, submissions, blobs, now, inflight, last>>

----------------------------------------------------------------------------
(* The clock *)

Tick ==
    /\ last = Nothing
    /\ now < MaxTime
    /\ now' = now + 1
    /\ UNCHANGED <<bucket, workers, users, categories, submissions, blobs, inflight, last>>

----------------------------------------------------------------------------

SeedFilename == <<"r", ".", "j", "p", "g">>
SeedEmails ==
    <<"alice@example.edu", "bob@example.edu", "carol@example.edu",
      "dave@example.edu">>
SeedUser(u) == User("Alice Rep", SeedEmails[u], get_password_hash("pw12345678"))

\* the users table of a deployment with one registered admin
SeedUsers == [u \in {1} |-> SeedUser(u)]

Init ==
    /\ now = 1
    /\ bucket = "owned"
    /\ workers = [w \in Workers |-> "up"]
    /\ users = [u \in Users |-> SeedUser(u)]
    /\ categories = [c \in CategoryIds |-> Category(c, TokenOf(c), NULL)]
    /\ \E owner \in [1..NumSeed -> CategoryIds] :
          submissions = [s \in 1..NumSeed |->
              PaymentSubmission(owner[s], "Jane Smith", "+1234567890", 50,
                  <<"receipts", owner[s], s, 1, SeedFilename>>)]
    /\ blobs = {submissions[s].receipt_url : s \in DOMAIN submissions}
    /\ inflight = [r \in Slots |-> Idle]
    /\ last = Nothing

Next ==
    \/ \E u \in Users, c \in CategoryIds, status_filter \in StatusFilters :
          list_submissions(u, c, status_filter)
    \/ \E u \in Users, s \in SubmissionIds : get_submission(u, s)
    \/ \E u \in Users, c \in CategoryIds : export_submissions_csv(u, c)
    \/ \E r \in Slots, u \in Users, s \in SubmissionIds, note \in Notes :
          confirm_submission(r, u, s, note)
    \/ \E r \in Slots, u \in Users, s \in SubmissionIds, note \in Notes :
          reject_submission(r, u, s, note)
    \/ \E r \in Slots : ReviewCommit(r)
    \/ \E u \in Users, c \in CategoryIds : get_category(u, c)
    \/ \E u \in Users, c \in CategoryIds, patch \in Patches :
          update_category(u, c, patch)
    \/ \E u \in Users, c \in CategoryIds : deactivate_category(u, c)
    \/ \E u \in Users, c \in CategoryIds : activate_category(u, c)
    \/ \E token \in Tokens : get_public_category(token)
    \/ \E r \in Slots, token \in Tokens, form \in Forms :
          submit_payment(r, token, form)
    \/ \E r \in Slots, filename \in Filenames, size \in FileSizes,
          upload_ok \in BOOLEAN, commit_ok \in BOOLEAN :
          SubmitStore(r, filename, size, upload_ok, commit_ok)
    \/ Tick
    \/ Respond

Spec == Init /\ [][Next]_vars

----------------------------------------------------------------------------
(* The identity service and the category registry: one registered admin    *)
(* with one category; admins register, log in, refresh and call the        *)
(* bearer-protected endpoints with the tokens they hold.                   *)

AuthInit ==
    /\ now = 1
    /\ bucket = "owned"
    /\ workers = [w \in Workers |-> "up"]
    /\ users = SeedUsers
    /\ categories = [c \in {1} |-> Category(1, TokenOf(1), NULL)]
    /\ submissions = [s \in 1..NumSeed |->
          PaymentSubmission(1, "Jane Smith", "+1234567890", 50,
              <<"receipts", 1, s, 1, SeedFilename>>)]
    /\ blobs = {submissions[s].receipt_url : s \in DOMAIN submissions}
    /\ inflight = [r \in Slots |-> Idle]
    /\ last = Nothing

AuthNext ==
    \/ \E r \in Slots, email \in Emails, password \in Passwords :
          register(r, email, password)
    \/ \E r \in Slots : RegisterCommit(r)
    \/ \E email \in Emails, password \in Passwords : login(email, password)
    \/ \E token \in BearerTokens : refresh_access_token(token)
    \/ \E token \in BearerTokens : BearerEndpoint(token)
    \/ Tick
    \/ Respond

AuthSpec == AuthInit /\ [][AuthNext]_vars

----------------------------------------------------------------------------
(* The admin's dashboard: categories and submissions stored at different    *)
(* times, reviewed one request at a time, and read through list_categories, *)
(* get_category, list_submissions and export_submissions_csv.               *)

ValidForm == <<"Jane Smith", "+1234567890", 50>>

DashInit ==
    /\ now = MaxTime
    /\ bucket = "owned"
    /\ workers = [w \in Workers |-> "up"]
    /\ users = [u \in Users |-> SeedUser(u)]
    /\ \E owner \in Users, created \in [CategoryIds -> 1..MaxTime] :
          categories = [c \in CategoryIds |->
              [Category(IF c = 1 THEN 1 ELSE owner, TokenOf(c), NULL)
                  EXCEPT !.created_at = created[c]]]
    /\ \E n \in NumSeed..MaxSubmissions :
          \E of \in [1..n -> CategoryIds], at \in [1..n -> 1..MaxTime] :
             submissions = [s \in 1..n |->
                 [PaymentSubmission(of[s], "Jane Smith", "+1234567890", 50,
                      <<"receipts", of[s], s, at[s], SeedFilename>>)
                     EXCEPT !.submitted_at = at[s]]]
    /\ blobs = {submissions[s].receipt_url : s \in DOMAIN submissions}
    /\ inflight = [r \in Slots |-> Idle]
    /\ last = Nothing

DashNext ==
    \/ \E u \in Users : list_categories(u)
    \/ \E u \in Users, c \in CategoryIds : get_category(u, c)
    \/ \E u \in Users, c \in CategoryIds, status_filter \in StatusFilters :
          list_submissions(u, c, status_filter)
    \/ \E u \in Users, c \in CategoryIds : export_submissions_csv(u, c)
    \/ \E u \in Users, s \in SubmissionIds : confirm_submission(1, u, s, None)
    \/ \E u \in Users, s \in SubmissionIds : reject_submission(1, u, s, "verified")
    \/ ReviewCommit(1)
    \/ \E token \in Tokens : submit_payment(1, token, ValidForm)
    \/ SubmitStore(1, SeedFilename, 1024, TRUE, TRUE)
    \/ Respond

DashSpec == DashInit /\ [][DashNext]_vars

----------------------------------------------------------------------------
(* Process start: the server processes of a deployment come up against an   *)
(* object store in which the bucket is missing, theirs, or taken.           *)

ReceiptKeys == {<<"receipts", 1, s, 1, SeedFilename>> : s \in SubmissionIds}

StorageInit ==
    /\ now = 1
    /\ bucket \in {"missing", "owned", "foreign"}
    /\ workers = [w \in Workers |-> "down"]
    /\ users = SeedUsers
    /\ categories = [c \in {1} |-> Category(1, TokenOf(1), NULL)]
    /\ submissions = <<>>
    /\ blobs = {}
    /\ inflight = [r \in Slots |-> Idle]
    /\ last = Nothing

StorageNext ==
    \/ \E w \in Workers : StorageService_init(w)
    \/ \E w \in Workers : ensure_bucket_create(w)
    \/ \E w \in Workers, key \in ReceiptKeys : StoreReceipt(w, key)
    \/ ForeignCreate
    \/ Tick
    \/ Respond

StorageSpec == StorageInit /\ [][StorageNext]_vars

----------------------------------------------------------------------------
(* Vocabulary of the properties *)

ReviewOps == {"confirm_submission", "reject_submission"}
SubmissionOps == {"get_submission"} \cup ReviewOps
CategoryOps ==
    {"get_category", "update_category", "activate_category",
     "deactivate_category", "list_submissions", "export_submissions_csv"}

\* the admin who owns the category of submission s
OwnerOf(s) == categories[submissions[s].category_id].admin_id

\* the request body passes the pydantic model of its endpoint
ValidBody(q) ==
    /\ q.op = "confirm_submission" => ConfirmSubmissionRequest(q.note)
    /\ q.op = "reject_submission" => RejectSubmissionRequest(q.note)
    /\ q.op = "update_category" => ~CategoryUpdate(q.patch).raised

\* request q addresses an existing category or submission of another admin
Foreign(q) ==
    \/ /\ q.op \in CategoryOps
       /\ q.target \in DOMAIN categories
       /\ categories[q.target].admin_id # q.user
    \/ /\ q.op \in SubmissionOps
       /\ q.target \in DOMAIN submissions
       /\ OwnerOf(q.target) # q.user

\* this step is the first step of a request, and the request ends in it
EndsAtOnce == last = Nothing /\ last' # Nothing /\ last'.pc = "start"

\* this step is the commit of the review request in slot r
Commits(r) == inflight[r].pc = "loaded" /\ inflight'[r].pc = "idle"

\* this step is a whole request with operation op, answered at once
Handles(op) == last = Nothing /\ last' # Nothing /\ last'.req.op = op

\* this step takes a new request into slot r
Admits(r) == inflight[r].pc = "idle" /\ inflight'[r].pc # "idle"

----------------------------------------------------------------------------
(* C1: a confirm_submission or reject_submission call (with a body its      *)
(* schema accepts) made by the owning admin on a submission whose committed *)
(* status is confirmed or rejected never proceeds to a review: it ends at   *)
(* once with BadRequestError (400), and the message names that status.      *)
C1_ReviewedRefusesReview ==
    [][\A s \in DOMAIN submissions :
          submissions[s].status # PENDING =>
             /\ \A r \in Slots :
                   Admits(r) /\ inflight'[r].req.op \in ReviewOps
                      => inflight'[r].req.target # s
             /\ ( /\ EndsAtOnce
                  /\ last'.req.op \in ReviewOps
                  /\ last'.req.target = s
                  /\ last'.req.user = OwnerOf(s)
                  /\ ValidBody(last'.req) )
                => last'.resp =
                      BadRequestError(<<"Cannot", Verb(last'.req.op),
                                        "submission with status",
                                        submissions[s].status>>)]_vars

C1_Witness ==
    /\ last.req.op = "reject_submission"
    /\ last.req.target \in DOMAIN submissions
    /\ last.req.user = OwnerOf(last.req.target)
    /\ submissions[last.req.target].status = CONFIRMED
    /\ last.resp.code = 400
    /\ last.resp.detail = <<"Cannot", "reject", "submission with status", CONFIRMED>>

(* C2: of the confirm and reject requests that run concurrently on one      *)
(* pending submission at most one succeeds: a review that commits with 200  *)
(* finds the submission still pending, so a committed status is never       *)
(* overwritten by another review.                                           *)
C2_AtMostOneReviewSucceeds ==
    [][\A r \in Slots :
          Commits(r) /\ last'.resp.code = 200
             => submissions[inflight[r].req.target].status = PENDING]_vars

(* C3: a call by admin A on a category or submission owned by another admin *)
(* B (get_category, update_category, activate_category, deactivate_category,*)
(* list_submissions, export_submissions_csv, get_submission,                *)
(* confirm_submission, reject_submission) ends at once with NotFoundError   *)
(* (404), never 403, and changes no row and no blob; no such call ever      *)
(* reaches a commit.                                                        *)
C3_OwnershipIsolation ==
    [][/\ \A r \in Slots : Admits(r) => ~Foreign(inflight'[r].req)
       /\ \A r \in Slots : Commits(r) => ~Foreign(inflight[r].req)
       /\ (EndsAtOnce /\ Foreign(last'.req) /\ ValidBody(last'.req))
             => /\ last'.resp.kind = "NotFoundError"
                /\ last'.resp.code = 404
                /\ UNCHANGED <<categories, submissions, blobs>>]_vars

C3_Witness ==
    /\ last.req.op = "confirm_submission"
    /\ Foreign(last.req)
    /\ submissions[last.req.target].status = PENDING
    /\ last.resp.code = 404

(* C4: once a submission's status has left pending, no step of any handler  *)
(* changes any of its fields, and none deletes the row.                     *)
C4_ReviewedRowIsImmutable ==
    [][\A s \in DOMAIN submissions :
          submissions[s].status # PENDING
             => s \in DOMAIN submissions' /\ submissions'[s] = submissions[s]]_vars

(* C5: in every committed state a submission is pending exactly when        *)
(* reviewed_at and reviewed_by are both null, and is confirmed or rejected  *)
(* exactly when both are set; a review that commits sets status,            *)
(* reviewed_at (= now) and reviewed_by (= the acting admin) in that one     *)
(* step, together with admin_note when the row was still pending.           *)
ReviewFieldsTogether(row) ==
    \/ row.status = PENDING /\ row.reviewed_at = NULL /\ row.reviewed_by = NULL
    \/ /\ row.status \in {CONFIRMED, REJECTED}
       /\ row.reviewed_at # NULL
       /\ row.reviewed_by \in Users

RejectionNeedsReason(kind) ==
    /\ (last = Nothing /\ last' # Nothing
        /\ last'.req.op = "reject_submission" /\ last'.req.note \in {None, ""})
          => /\ last'.resp.kind = kind
             /\ submissions' = submissions
    /\ \A r \in Slots :
          Admits(r) /\ inflight'[r].req.op = "reject_submission"
             => inflight'[r].req.note \notin {None, ""}
    /\ (EndsAtOnce /\ last'.req.op = "confirm_submission" /\ last'.req.note = None
        /\ last'.req.target \in DOMAIN submissions)
          => \/ OwnerOf(last'.req.target) # last'.req.user
             \/ submissions[last'.req.target].status # PENDING
    /\ \A r \in Slots :
          Commits(r) /\ inflight[r].req.op = "confirm_submission"
             => /\ last'.resp = Response(200, CONFIRMED)
                /\ submissions'[inflight[r].req.target].status = CONFIRMED

ValidFile(q) ==
    /\ Lower(SplitExt(q.filename)) \in ALLOWED_EXTENSIONS
    /\ q.size <= MAX_UPLOAD_SIZE

C8_ValidSubmitCommitsPending ==
    ( /\ last.req.op = "submit_payment"
      /\ last.pc = "store"
      /\ ValidFile(last.req)
      /\ last.req.upload_ok )
    => /\ last.resp = Response(201, PENDING)
       /\ \E s \in DOMAIN submissions :
             /\ submissions[s].status = PENDING
             /\ submissions[s].reviewed_at = NULL
             /\ submissions[s].reviewed_by = NULL
             /\ submissions[s].receipt_url =
                   generate_receipt_key(submissions[s].category_id, s,
                                        last.req.filename)
             /\ submissions[s].receipt_url \in blobs

\* the categories that carry the token
WithToken(token) == {c \in DOMAIN categories : categories[c].public_token = token}

\* the token resolves: one category carries it, active and not expired
Resolves(token) ==
    \E c \in WithToken(token) : categories[c].is_active /\ ~Expired(c)

(* C9: get_public_category and submit_payment resolve a token the same way: *)
(* while its category is active and unexpired neither refuses it and        *)
(* get_public_category returns that category; when the token is unknown,    *)
(* the category inactive or expired, both fail with NotFoundError (404).    *)
C9_ResolutionFailsAsNotFound ==
    ( /\ last.req.op \in {"get_public_category", "submit_payment"}
      /\ last.pc = "start"
      /\ last.req.op = "submit_payment" => ~SubmitForm(last.req.form).raised )
    => /\ ~Resolves(last.req.token)
             => last.resp.kind = "NotFoundError" /\ last.resp.code = 404
       /\ Resolves(last.req.token)
             => /\ last.req.op = "get_public_category"
                /\ last.resp.code = 200
                /\ last.resp.detail \in {<<c>> : c \in WithToken(last.req.token)}

(* C10: a submit_payment request that fails on category resolution          *)
(* (unknown, inactive or expired token) ends in its first step, and one     *)
(* whose file fails validation (extension not allow-listed, size above the  *)
(* maximum) ends with an error; in both cases no submission row is          *)
(* committed and no blob is stored.                                         *)
C10_FailsBeforePersistence ==
    [][/\ \A r \in Slots :
             Admits(r) /\ inflight'[r].req.op = "submit_payment"
                => Resolves(inflight'[r].req.token)
       /\ (EndsAtOnce /\ last'.req.op = "submit_payment")
             => UNCHANGED <<submissions, blobs>>
       /\ ( /\ last = Nothing /\ last' # Nothing
            /\ last'.req.op = "submit_payment"
            /\ last'.pc = "store"
            /\ ~ValidFile(last'.req) )
          => /\ last'.resp.code >= 400
             /\ UNCHANGED <<submissions, blobs>>]_vars

C10_Witness ==
    /\ last.req.op = "submit_payment"
    /\ last.pc = "store"
    /\ Lower(SplitExt(last.req.filename)) \notin ALLOWED_EXTENSIONS
    /\ last.resp.kind = "BadRequestError"
    /\ last.resp.detail[1] = "File type not allowed"
    /\ DOMAIN submissions = 1..NumSeed

Unauthorized(resp) == resp.kind = "AuthenticationError" /\ resp.code = 401

\* the response carries an access and a refresh token
HasTokenPair(resp) ==
    /\ resp.kind = "ok"
    /\ Len(resp.detail) = 2
    /\ resp.detail[1].type = "access"
    /\ resp.detail[2].type = "refresh"

(* C12: no token with the type tag refresh passes get_current_user, the     *)
(* dependency of every bearer-protected endpoint, and none with the tag     *)
(* access passes the refresh endpoint: both answer AuthenticationError      *)
(* (401).  This holds of every validly signed token a client can present,   *)
(* and so of both tokens of any pair that register, login or refresh return.*)
C12_TokenTypeIsolation ==
    /\ \A t \in BearerTokens :
          /\ t.type = "refresh"
                => get_current_user(t).raised /\ Unauthorized(get_current_user(t).exc)
          /\ t.type = "access"
                => RefreshSubject(t).raised /\ Unauthorized(RefreshSubject(t).exc)
    /\ (last.req.op = "get_current_user" /\ last.req.jwt.type = "refresh")
          => Unauthorized(last.resp)
    /\ (last.req.op = "refresh_access_token" /\ last.req.jwt.type = "access")
          => Unauthorized(last.resp)
    /\ (last.req.op \in {"register", "login", "refresh_access_token"}
        /\ HasTokenPair(last.resp))
          => /\ get_current_user(last.resp.detail[2]).raised
             /\ RefreshSubject(last.resp.detail[1]).raised

C12_Witness ==
    /\ last.req.op = "get_current_user"
    /\ last.req.jwt.type = "refresh"
    /\ ~decode_token(last.req.jwt).raised
    /\ UserById(last.req.jwt.sub) # NULL
    /\ last.resp = AuthenticationError(<<"Invalid token type">>)

\* a stored admin has this email and this password
Credentials(email, password) ==
    \E u \in DOMAIN users :
       /\ users[u].email = email
       /\ users[u].password_hash = get_password_hash(password)

(* C13: a login with the email and password of an admin that register has   *)
(* stored answers 200 with a token pair whose access token                  *)
(* get_current_user resolves to that admin.                                 *)
C13_LoginAfterRegister ==
    ( /\ last.req.op = "login"
      /\ Credentials(last.req.email, last.req.password)
      /\ UserByEmail(last.req.email) \notin DOMAIN SeedUsers )
    => /\ last.resp.code = 200
       /\ HasTokenPair(last.resp)
       /\ ~get_current_user(last.resp.detail[1]).raised
       /\ get_current_user(last.resp.detail[1]).value = UserByEmail(last.req.email)

(* C14: a login with an email no admin has and a login with a stored email  *)
(* and a password that does not verify get the same response:               *)
(* AuthenticationError (401) with the one message.                          *)
C14_LoginFailuresAlike ==
    (last.req.op = "login" /\ ~Credentials(last.req.email, last.req.password))
    => last.resp = AuthenticationError(<<"Incorrect email or password">>)

\* this step is the commit of the register request in slot r
RegisterCommits(r) == inflight[r].pc = "checked" /\ inflight'[r].pc = "idle"

(* C15: register with a stored email (exact, case-sensitive match) answers  *)
(* ConflictError (409) and adds no row; register with an email that is not  *)
(* stored adds exactly one row and answers 201 with an access and a refresh *)
(* token.                                                                   *)
C15_RegisterOutcome ==
    [][/\ ( /\ EndsAtOnce
            /\ last'.req.op = "register"
            /\ RegisterRequest("Alice Rep", last'.req.email, last'.req.password)
            /\ UserByEmail(last'.req.email) # NULL )
          => /\ last'.resp.kind = "ConflictError"
             /\ last'.resp.code = 409
             /\ users' = users
       /\ \A r \in Slots :
             RegisterCommits(r) /\ UserByEmail(inflight[r].req.email) = NULL
                => /\ Cardinality(DOMAIN users') = Cardinality(DOMAIN users) + 1
                   /\ UserByEmail(inflight[r].req.email)' # NULL
                   /\ last'.resp.code = 201
                   /\ HasTokenPair(last'.resp)]_vars

\* no two rows of the table have the same email
EmailsUnique(table) ==
    \A u, v \in DOMAIN table : table[u].email = table[v].email => u = v

(* C16: however register requests for one email interleave, no two admin    *)
(* rows with that email are committed, and a request that reaches its       *)
(* commit after another has stored the email answers ConflictError (409).   *)
C16_RegisterRace ==
    [][/\ EmailsUnique(users) /\ EmailsUnique(users')
       /\ \A r \in Slots :
             RegisterCommits(r) /\ UserByEmail(inflight[r].req.email) # NULL
                => last'.resp.kind = "ConflictError" /\ last'.resp.code = 409]_vars

(* C17: a refresh call with a validly signed, unexpired refresh token whose *)
(* subject is a stored admin answers 200 with an access token for that      *)
(* admin and the same refresh token; the call changes no state, so the      *)
(* token is accepted again by every later call until it expires.            *)
C17_RefreshKeepsRefreshToken ==
    ( /\ last.req.op = "refresh_access_token"
      /\ last.req.jwt.type = "refresh"
      /\ ~decode_token(last.req.jwt).raised
      /\ UserById(last.req.jwt.sub) # NULL )
    => /\ last.resp.code = 200
       /\ HasTokenPair(last.resp)
       /\ last.resp.detail[2] = last.req.jwt
       /\ UserById(last.resp.detail[1].sub) = UserById(last.req.jwt.sub)

\* category c is missing, or is owned by another admin than u
NotOwned(c, u) == c \notin DOMAIN categories \/ categories[c].admin_id # u

(* C18: get_category_by_id_and_owner raises the same NotFoundError, with    *)
(* the same message, for a category id that does not exist and for one      *)
(* that belongs to another admin, and the category endpoints answer with    *)
(* it in both cases.                                                        *)
C18_CategoryNotFoundAlike ==
    /\ \A u \in Users, c \in CategoryIds :
          NotOwned(c, u)
             => get_category_by_id_and_owner(c, u) =
                   Raise(NotFoundError(<<"Category not found or access denied">>))
    /\ (last.req.op \in CategoryOps /\ NotOwned(last.req.target, last.req.user))
          => last.resp = NotFoundError(<<"Category not found or access denied">>)

C18_Witness ==
    /\ last.req.op = "get_category"
    /\ last.req.target \in DOMAIN categories
    /\ categories[last.req.target].admin_id # last.req.user
    /\ CategoryIds \ DOMAIN categories # {}
    /\ last.resp = NotFoundError(<<"Category not found or access denied">>)

(* C19: get_submission, confirm_submission and reject_submission answer a   *)
(* call on a submission under another admin's category exactly as they      *)
(* answer a call on a submission id that does not exist (NULL is the id of  *)
(* no row): same status, same message.                                      *)
C19_SubmissionNotFoundAlike ==
    ( /\ last.req.op \in SubmissionOps
      /\ last.pc = "start"
      /\ ValidBody(last.req)
      /\ last.req.target \in DOMAIN submissions
      /\ OwnerOf(last.req.target) # last.req.user )
    => last.resp = get_submission_with_category_check(NULL, last.req.user).exc

\* no two rows of the table have the same public token
TokensUnique(table) ==
    \A c, d \in DOMAIN table :
       table[c].public_token = table[d].public_token => c = d

(* C20: a category row appears only by create_category, which answers 201;  *)
(* it is owned by the calling admin, is active and has a public token of at *)
(* least 40 characters; in every state no two categories share a token.     *)
C20_CreatedCategory ==
    [][/\ TokensUnique(categories) /\ TokensUnique(categories')
       /\ \A c \in DOMAIN categories' \ DOMAIN categories :
             /\ last'.req.op = "create_category"
             /\ last'.resp.code = 201
             /\ categories'[c].admin_id = last'.req.user
             /\ categories'[c].is_active
             /\ categories'[c].public_token[3] >= 40]_vars

C20_Witness ==
    /\ last.req.op = "create_category"
    /\ last.resp.code = 201
    /\ last.resp.detail[1] \in DOMAIN categories
    /\ categories[last.resp.detail[1]].admin_id = last.req.user
    /\ last.req.user # categories[1].admin_id
    /\ Cardinality(DOMAIN categories) = 2

(* C21: update_category that answers 200 sets the fields the patch carries  *)
(* and leaves every other field of the category, and every other category,  *)
(* as it was; a refused update changes nothing; and no step at all, of      *)
(* update_category, activate_category, deactivate_category or any other     *)
(* handler, changes the public_token or the admin_id of a category.         *)
C21_PatchAppliesOnlyItsFields ==
    [][/\ \A c \in DOMAIN categories :
             /\ c \in DOMAIN categories'
             /\ categories'[c].public_token = categories[c].public_token
             /\ categories'[c].admin_id = categories[c].admin_id
       /\ Handles("update_category") =>
             IF last'.resp.code = 200
             THEN /\ \A c \in DOMAIN categories \ {last'.req.target} :
                        categories'[c] = categories[c]
                  /\ LET old == categories[last'.req.target]
                         new == categories'[last'.req.target]
                         patch == last'.req.patch
                     IN  \A f \in DOMAIN old \ {"public_token", "admin_id"} :
                            new[f] = IF f \in DOMAIN patch THEN patch[f] ELSE old[f]
             ELSE categories' = categories]_vars

C21_Witness ==
    /\ last.req.op = "update_category"
    /\ last.resp.code = 200
    /\ DOMAIN last.req.patch = {"expires_at", "public_token", "admin_id"}
    /\ categories[last.req.target].expires_at = last.req.patch.expires_at
    /\ categories[last.req.target].public_token = TokenOf(last.req.target)
    /\ categories[last.req.target].public_token # last.req.patch.public_token
    /\ categories[last.req.target].admin_id = last.req.user

(* C22: activate_category and deactivate_category write the is_active flag  *)
(* of the one category and nothing else: no submission, blob or user        *)
(* changes, no other category and no other field; the flag they write does  *)
(* not depend on its old value, so a second call leaves the state the first *)
(* call left.                                                               *)
C22_SetActiveIsIdempotent ==
    [][\A op \in {"activate_category", "deactivate_category"} :
          Handles(op) =>
             LET c == last'.req.target
                 active == (op = "activate_category")
             IN  /\ UNCHANGED <<submissions, blobs, users>>
                 /\ IF last'.resp.code = 200
                    THEN /\ categories' = [categories EXCEPT ![c].is_active = active]
                         /\ categories[c].is_active = active => categories' = categories
                    ELSE categories' = categories]_vars

C22_Witness ==
    /\ last.req.op = "deactivate_category"
    /\ last.resp.code = 200
    /\ ~categories[last.req.target].is_active
    /\ \E s \in DOMAIN submissions :
          /\ submissions[s].category_id = last.req.target
          /\ submissions[s].status = CONFIRMED

\* category c takes no new submission: it is inactive or expired
Closed(c) == ~categories[c].is_active \/ Expired(c)

(* C28: the review endpoints do not look at is_active or expires_at.  On a  *)
(* category that is inactive or expired the owner's list_submissions and    *)
(* get_submission answer 200, the owner's confirm_submission and            *)
(* reject_submission are refused at once only when the submission is no     *)
(* longer pending, and a review that reaches its commit answers 200 and     *)
(* leaves the submission confirmed or rejected.                             *)
C28_ClosedCategoryStaysReviewable ==
    [][/\ ( /\ Handles("list_submissions")
            /\ last'.req.target \in DOMAIN categories
            /\ categories[last'.req.target].admin_id = last'.req.user
            /\ Closed(last'.req.target) )
          => last'.resp.code = 200
       /\ ( /\ EndsAtOnce
            /\ last'.req.op \in SubmissionOps
            /\ ValidBody(last'.req)
            /\ last'.req.target \in DOMAIN submissions
            /\ OwnerOf(last'.req.target) = last'.req.user
            /\ Closed(submissions[last'.req.target].category_id) )
          => IF last'.req.op = "get_submission"
             THEN last'.resp = Response(200, submissions[last'.req.target].status)
             ELSE submissions[last'.req.target].status # PENDING
       /\ \A r \in Slots :
             (Commits(r) /\ Closed(submissions[inflight[r].req.target].category_id))
                => /\ last'.resp = Response(200, TargetStatus(inflight[r].req.op))
                   /\ submissions'[inflight[r].req.target].status =
                         TargetStatus(inflight[r].req.op)]_vars

C28_Witness ==
    /\ last.pc = "commit"
    /\ last.req.op = "reject_submission"
    /\ last.resp = Response(200, REJECTED)
    /\ submissions[last.req.target].status = REJECTED
    /\ ~categories[submissions[last.req.target].category_id].is_active
    /\ Expired(submissions[last.req.target].category_id)

(* C29: in every state the reviewed_by of a confirmed or rejected           *)
(* submission is the admin_id of the submission's category.                 *)
C29_ReviewerIsOwner ==
    \A s \in DOMAIN submissions :
       submissions[s].status \in {CONFIRMED, REJECTED}
          => submissions[s].reviewed_by = OwnerOf(s)

C29_Witness ==
    \E s \in DOMAIN submissions :
       /\ submissions[s].status = REJECTED
       /\ submissions[s].reviewed_by = OwnerOf(s)
       /\ submissions[s].reviewed_by = 2
       /\ last.pc = "commit"
       /\ last.req.target = s

\* the number of submissions of category c with status st
CountIn(c, st) ==
    Cardinality({s \in DOMAIN submissions :
                    submissions[s].category_id = c /\ submissions[s].status = st})

\* the counts in the category entry d of a response are the current ones
CountsRight(d) ==
    /\ d.pending_count = CountIn(d.id, PENDING)
    /\ d.confirmed_count = CountIn(d.id, CONFIRMED)
    /\ d.rejected_count = CountIn(d.id, REJECTED)

(* C23: the category that get_category returns, and each category that      *)
(* list_categories returns, carries pending_count, confirmed_count and      *)
(* rejected_count equal to the numbers of its submissions that now have     *)
(* that status; list_categories returns each category of the caller once,   *)
(* no category of another admin, and no category before one created later.  *)
C23_CountsAndOwnCategories ==
    /\ (last.req.op = "get_category" /\ last.resp.code = 200)
          => /\ Len(last.resp.detail) = 1
             /\ last.resp.detail[1].id = last.req.target
             /\ CountsRight(last.resp.detail[1])
    /\ last.req.op = "list_categories"
          => LET d == last.resp.detail
                 own == {c \in DOMAIN categories :
                            categories[c].admin_id = last.req.user}
             IN  /\ last.resp.code = 200
                 /\ Len(d) = Cardinality(own)
                 /\ {d[i].id : i \in 1..Len(d)} = own
                 /\ \A i, j \in 1..Len(d) :
                       i < j => categories[d[i].id].created_at >=
                                categories[d[j].id].created_at
                 /\ \A i \in 1..Len(d) : CountsRight(d[i])

C23_Witness ==
    /\ last.req.op = "list_categories"
    /\ Len(last.resp.detail) = 2
    /\ last.resp.detail[1].created_at > last.resp.detail[2].created_at
    /\ last.resp.detail[1].confirmed_count = 1
    /\ last.resp.detail[1].pending_count = 0
    /\ last.resp.detail[2].rejected_count = 1

(* C24: list_submissions called by the owner of the category answers 200    *)
(* with each submission of that category whose status passes the filter     *)
(* (every status when no filter is given) once, with no other submission,   *)
(* and with no submission before one submitted later.                       *)
C24_ListIsOfCategoryNewestFirst ==
    ( /\ last.req.op = "list_submissions"
      /\ last.req.target \in DOMAIN categories
      /\ categories[last.req.target].admin_id = last.req.user )
    => LET d == last.resp.detail
           wanted == {s \in DOMAIN submissions :
                        /\ submissions[s].category_id = last.req.target
                        /\ \/ last.req.status_filter = None
                           \/ submissions[s].status = last.req.status_filter}
       IN  /\ last.resp.code = 200
           /\ Len(d) = Cardinality(wanted)
           /\ {d[i].id : i \in 1..Len(d)} = wanted
           /\ \A i \in 1..Len(d) :
                 /\ d[i].category_id = last.req.target
                 /\ d[i].status = submissions[d[i].id].status
                 /\ d[i].submitted_at = submissions[d[i].id].submitted_at
           /\ \A i, j \in 1..Len(d) :
                 i < j => d[i].submitted_at >= d[j].submitted_at

C24_Witness ==
    /\ last.req.op = "list_submissions"
    /\ last.req.status_filter = PENDING
    /\ last.resp.code = 200
    /\ Len(last.resp.detail) = 1
    /\ \E s \in DOMAIN submissions :
          /\ submissions[s].category_id = last.req.target
          /\ submissions[s].status = REJECTED
    /\ \E c \in DOMAIN categories :
          c # last.req.target /\ categories[c].admin_id = last.req.user

(* C25: export_submissions_csv changes no row, no blob and no request in    *)
(* progress; called by the owner it answers 200 with the header row and     *)
(* then one row for each submission of the category, none for any other,    *)
(* and no row before the row of a submission submitted earlier.             *)
C25_ExportIsPureProjection ==
    [][Handles("export_submissions_csv") =>
          /\ UNCHANGED <<users, categories, submissions, blobs, inflight, now>>
          /\ ( /\ last'.req.target \in DOMAIN categories
               /\ categories[last'.req.target].admin_id = last'.req.user )
             => LET d == last'.resp.detail
                    rows == {s \in DOMAIN submissions :
                               submissions[s].category_id = last'.req.target}
                IN  /\ last'.resp.code = 200
                    /\ Len(d) = Cardinality(rows) + 1
                    /\ d[1] = CsvHeader
                    /\ {d[i][1] : i \in 2..Len(d)} = {PyText(s) : s \in rows}
                    /\ \A i \in 2..Len(d) : d[i] = CsvRow(d[i][1][2])
                    /\ \A i, j \in 2..Len(d) :
                          i < j => submissions[d[i][1][2]].submitted_at <=
                                   submissions[d[j][1][2]].submitted_at]_vars

C25_Witness ==
    /\ last.req.op = "export_submissions_csv"
    /\ last.resp.code = 200
    /\ Len(last.resp.detail) = 3
    /\ last.resp.detail[1] = CsvHeader
    /\ last.resp.detail[2][6] = isoformat(1)
    /\ last.resp.detail[3][6] = isoformat(2)
    /\ last.resp.detail[3][5] = CONFIRMED

(* C26: a process that found the bucket missing and then calls              *)
(* create_bucket finishes its start-up successfully whenever the bucket is  *)
(* still missing or has meanwhile been created by another process of the    *)
(* deployment (create_bucket then fails with BucketAlreadyOwnedByYou, which *)
(* is not raised); afterwards the bucket exists.  A process fails to start  *)
(* only when another account holds the bucket name.                         *)
C26_BucketRaceIsTolerated ==
    [][/\ \A w \in Workers :
             ( /\ workers[w] = "creating"
               /\ workers'[w] # "creating"
               /\ bucket # "foreign" )
             => /\ workers'[w] = "up"
                /\ bucket' = "owned"
                /\ last'.resp.code = 200
       /\ \A w \in Workers : workers'[w] = "crashed" => bucket' = "foreign"]_vars

C26_Witness ==
    /\ \A w \in Workers : workers[w] = "up"
    /\ bucket = "owned"
    /\ last.req.op = "create_bucket"
    /\ last.resp.code = 200
    /\ last.resp.detail = <<"BucketAlreadyOwnedByYou">>

\* the request that has just ended is a submit_payment whose receipt passes
\* both validations and which neither the object store nor the database
\* refuses
SubmitGoesThrough ==
    /\ last.req.op = "submit_payment"
    /\ last.pc = "store"
    /\ ValidFile(last.req)
    /\ last.req.upload_ok
    /\ last.req.commit_ok

StoredKeys(q) ==
    {k \in blobs : k[5] = SafeFilename(q.filename) /\ k[4] = now}

====
